---- MODULE Spec2Model ----
(***************************************************************************)
(* Request-scoped database connection management (web/db.py), the          *)
(* request-aware log formatter and the global exception hook               *)
(* (web/logger.py), and the /health route exercised by                     *)
(* web/tests/test_app.py.                                                  *)
(*                                                                         *)
(* A context is the per-request state bag (flask.g together with the       *)
(* request it belongs to); each worker thread of the framework has at most *)
(* one active context at a time.  A connection handle is a positive        *)
(* integer, fresh for every successful engine.connect().  The log level is *)
(* the one the environment names when the module is loaded.                *)
(***************************************************************************)
EXTENDS Integers, Sequences, FiniteSets, TLC

\* ---------------------------------------------------------------- bounds
NThreads == 1       \* worker threads, each serving one request at a time
MaxConn  == 2       \* connections the engine can hand out in one run

Thread == 1..NThreads
ConnId == 1..MaxConn

\* ------------------------------------------------------------- constants
NoDb == 0           \* "db" not in g / the None a call returns
NoOwner == 0
Discarded == NThreads + 1
None == "None"      \* record.url = None, record.remote_addr = None
NoReq == [url |-> None, remote_addr |-> None]   \* no request context

NOTSET   == 0
DEBUG    == 10
INFO     == 20
WARNING  == 30
ERROR    == 40
CRITICAL == 50
TRACE    == 5       \* a custom level below DEBUG
\* The levels os.getenv("PYTHON_LOG_LEVEL", "DEBUG") can name: with any other
\* name setLevel raises and the module is never loaded.
LogLevels == {NOTSET, DEBUG, INFO, WARNING, ERROR, CRITICAL}
Levels == {TRACE, DEBUG, WARNING, ERROR}   \* the levels other code logs at

\* The inbound requests: a page from one client, a probe from another.
Requests == {[url |-> "/", remote_addr |-> "10.0.0.1"],
             [url |-> "/health", remote_addr |-> "10.0.0.2"]}

ConnectOutcomes == {"ok", "fail"}           \* engine.connect()
CloseOutcomes   == {"ok", "raise"}          \* db.close()
QueryOutcomes   == {"ok", "operr", "other"} \* db.execute(...).one()

\* The exception classes handed to the hook, with their base class.
Parent == [c \in {"BaseException", "Exception", "KeyboardInterrupt", "SystemExit",
                  "ValueError", "OperationalError", "UserAbort"} |->
             CASE c = "BaseException"     -> "object"
               [] c = "Exception"         -> "BaseException"
               [] c = "KeyboardInterrupt" -> "BaseException"
               [] c = "SystemExit"        -> "BaseException"
               [] c = "ValueError"        -> "Exception"
               [] c = "OperationalError"  -> "Exception"
               [] c = "UserAbort"         -> "KeyboardInterrupt"]
ExcTypes  == {"ValueError", "Exception", "KeyboardInterrupt", "UserAbort"}
ExcValues == {"e1"}
Tracebacks == {"tb1"}

VARIABLES
  PYTHON_LOG_LEVEL, \* the level of the root logger and of its handler
  req,        \* req[t]: the request whose context is active on thread t, or NoReq
  g,          \* g[t]: the handle stored as g.db in t's context, or NoDb
  nextConn,   \* the next handle engine.connect() creates
  owner,      \* owner[c]: the thread whose active context opened c, NoOwner
              \* before c exists, Discarded once that context is gone
  closeCalls, \* closeCalls[c]: how many times close() was invoked on c
  log,        \* the records the handler wrote during the last operation
  last        \* what the last operation did and gave back to its caller

vars == <<PYTHON_LOG_LEVEL, req, g, nextConn, owner, closeCalls, log, last>>

\* ---------------------------------------------------------------- logger

\* has_request_context(), `request` being the request context the calling
\* code runs in (NoReq: none)
has_request_context(request) == request # NoReq

\* format reading one request shared by the whole process instead of the
\* context of the calling thread
format_shared(request, level, msg) ==
  IF \E u \in Thread : req[u] # NoReq
  THEN LET u == CHOOSE u \in Thread : req[u] # NoReq
       IN [level |-> level, msg |-> msg,
           url |-> req[u].url, remote_addr |-> req[u].remote_addr]
  ELSE [level |-> level, msg |-> msg, url |-> None, remote_addr |-> None]

\* RequestFormatter.format: the record with its url and remote_addr set.
format(request, level, msg) ==
  IF has_request_context(request)
  THEN [level |-> level, msg |-> msg,
        url |-> request.url, remote_addr |-> request.remote_addr]
  ELSE [level |-> level, msg |-> msg, url |-> None, remote_addr |-> None]

\* log.log(level, msg): the root logger and its handler both let a record
\* through when its level is at least PYTHON_LOG_LEVEL (NOTSET: every one).
emit(request, level, msg) ==
  IF level >= PYTHON_LOG_LEVEL THEN <<format(request, level, msg)>> ELSE <<>>

RECURSIVE issubclass(_, _)
issubclass(c, k) ==
  IF c = k THEN TRUE
  ELSE IF c = "object" THEN FALSE
  ELSE issubclass(Parent[c], k)

\* -------------------------------------------------------------------- db

\* get_db connecting on every call
in_g_never(t) == FALSE

\* "db" in g
in_g(t) == g[t] # NoDb

\* get_db() finds no handle and engine.connect() succeeds: the handle is
\* stored as g.db and g.db is returned.
get_db_connected(t) ==
  LET con == nextConn
      g1  == [g EXCEPT ![t] = con]
  IN [g |-> g1, ret |-> g1[t], raised |-> "none", connects |-> 1,
      log |-> emit(req[t], INFO, "Connecting to database"), opened |-> TRUE]

\* get_db catching the connect error and going on without a handle
get_db_failed_swallowed(t) ==
  [g |-> g, ret |-> NoDb, raised |-> "none", connects |-> 1,
   log |-> emit(req[t], INFO, "Connecting to database"), opened |-> FALSE]

\* get_db() finds no handle and engine.connect() raises: the exception leaves
\* get_db before g.db is assigned.
get_db_failed(t) ==
  [g |-> g, ret |-> NoDb, raised |-> "ConnectionError", connects |-> 1,
   log |-> emit(req[t], INFO, "Connecting to database"), opened |-> FALSE]

\* get_db() finds a handle: the if body, the return statement with it, is
\* skipped and the function ends without a return value.
get_db_held(t) ==
  [g |-> g, ret |-> NoDb, raised |-> "none", connects |-> 0,
   log |-> <<>>, opened |-> FALSE]

\* get_db() called in t's context, engine.connect() ending as `outcome`:
\* the context afterwards, the value returned, the exception raised, the
\* number of engine.connect() calls, the lines logged, whether a handle
\* was created.
get_db(t, outcome) ==
  IF ~in_g(t)
  THEN IF outcome = "ok" THEN get_db_connected(t) ELSE get_db_failed(t)
  ELSE get_db_held(t)

\* g.get("db"): the handle read and left in the context
pop_db_kept(t) == g

\* g.pop("db", None): the context without its handle
pop_db(t) == [g EXCEPT ![t] = NoDb]

\* close_db dropping the handle without closing it
close_db_present_unclosed(t, request, outcome) ==
  [g |-> [g EXCEPT ![t] = NoDb], closed |-> <<>>, raised |-> "none",
   log |-> emit(request, INFO, "close_db requested")
           \o emit(request, INFO, "Closing db connection")]

\* close_db() finds a handle: it is removed from g and close() is invoked on
\* it; an exception of close() leaves close_db.
close_db_present(t, request, outcome) ==
  [g |-> pop_db(t), closed |-> <<g[t]>>,
   raised |-> IF outcome = "raise" THEN "CleanupError" ELSE "none",
   log |-> emit(request, INFO, "close_db requested")
           \o emit(request, INFO, "Closing db connection")]

\* g.pop("db") without its default: a missing handle is a KeyError
close_db_absent_keyerror(t, request) ==
  [g |-> g, closed |-> <<>>, raised |-> "KeyError",
   log |-> emit(request, INFO, "close_db requested")]

\* close_db() finds no handle.
close_db_absent(t, request) ==
  [g |-> pop_db(t), closed |-> <<>>, raised |-> "none",
   log |-> emit(request, INFO, "close_db requested")
           \o emit(request, INFO, "db connection already closed. No action taken.")]

\* close_db() called in t's context by code running in `request` (NoReq:
\* outside any request context), db.close() ending as `outcome`: the
\* context afterwards, the handles close() was invoked on, the exception
\* raised, the lines logged.
close_db(t, request, outcome) ==
  IF g[t] # NoDb
  THEN close_db_present(t, request, outcome)
  ELSE close_db_absent(t, request)

\* close() invoked on every handle of `closed`
Closed(closed) ==
  [c \in ConnId |->
     closeCalls[c] + Cardinality({i \in DOMAIN closed : closed[i] = c})]

\* The engine can still hand out a handle when the call asks for one.
CanConnect(t, outcome) == (~in_g(t) /\ outcome = "ok") => nextConn <= MaxConn

\* The bookkeeping of a handle get_db created.
Opened(t, r) ==
  IF r.opened
  THEN /\ owner' = [owner EXCEPT ![nextConn] = t]
       /\ nextConn' = nextConn + 1
  ELSE UNCHANGED <<owner, nextConn>>

\* ---------------------------------------------------------------- health

\* the route telling the two kinds of failure apart
health_body_split(query) ==
  IF query = "ok" THEN "OK" ELSE IF query = "operr" THEN "BAD" ELSE "ERROR"

\* The body the route answers with for each end of the liveness query.
health_body(query) == IF query = "ok" THEN "OK" ELSE "BAD"

\* The /health route after its get_db() call gave `r`, the liveness query
\* ending as `query`: the number of queries executed, the response (status 0:
\* the route produced none), the exception leaving the route, the lines logged.
health(t, r, query) ==
  IF r.raised # "none"
  THEN [executes |-> 0, status |-> 0, body |-> "", raised |-> r.raised,
        log |-> <<>>]
  ELSE IF r.ret = NoDb
  THEN [executes |-> 0, status |-> 200, body |-> "BAD", raised |-> "none",
        log |-> emit(req[t], ERROR, "Error performing healthcheck")]
  ELSE [executes |-> 1, status |-> 200, body |-> health_body(query),
        raised |-> "none",
        log |-> IF query = "ok" THEN <<>>
                ELSE emit(req[t], ERROR, "Error performing healthcheck")]

\* ------------------------------------------------------------ excepthook

\* exc_type is KeyboardInterrupt: a subclass is logged like any exception
is_interrupt_exact(exc_type) == exc_type = "KeyboardInterrupt"

\* issubclass(exc_type, KeyboardInterrupt)
is_interrupt(exc_type) == issubclass(exc_type, "KeyboardInterrupt")

\* handle_exception(exc_type, exc_value, exc_traceback) on thread t: the
\* arguments sys.__excepthook__ is called with (none: it is not called) and
\* the lines logged.
handle_exception(t, exc_type, exc_value, exc_traceback) ==
  IF is_interrupt(exc_type)
  THEN [hook |-> <<exc_type, exc_value, exc_traceback>>, log |-> <<>>]
  ELSE [hook |-> <<>>, log |-> emit(req[t], CRITICAL, "Uncaught exception")]

\* The record of an operation that did nothing observable.
Quiet == [op |-> "none", ctx |-> 0, request |-> NoReq, held |-> NoDb,
          outcome |-> <<>>, exc |-> <<>>,
          ret |-> NoDb, raised |-> "none", connects |-> 0, closed |-> <<>>,
          executes |-> 0, status |-> 0, body |-> "", hook |-> <<>>]

\* The record of operation `op` called on thread t: the request active there
\* and the handle its context holds when the call is made.
Call(op, t) ==
  [Quiet EXCEPT !.op = op, !.ctx = t, !.request = req[t], !.held = g[t]]

Init ==
  /\ PYTHON_LOG_LEVEL \in LogLevels
  /\ req = [t \in Thread |-> NoReq]
  /\ g = [t \in Thread |-> NoDb]
  /\ nextConn = 1
  /\ owner = [c \in ConnId |-> NoOwner]
  /\ closeCalls = [c \in ConnId |-> 0]
  /\ log = <<>>
  /\ last = Quiet

\* The framework creates the context of an inbound request on thread t.
StartRequest(t) ==
  /\ ~has_request_context(req[t])
  /\ \E r \in Requests : req' = [req EXCEPT ![t] = r]
  /\ g' = [g EXCEPT ![t] = NoDb]
  /\ log' = <<>>
  /\ last' = [Quiet EXCEPT !.op = "start", !.ctx = t]
  /\ UNCHANGED <<PYTHON_LOG_LEVEL, nextConn, owner, closeCalls>>

\* Handler code of the request on thread t calls get_db().
GetDb(t) ==
  /\ has_request_context(req[t])
  /\ \E outcome \in ConnectOutcomes :
       LET r == get_db(t, outcome)
       IN /\ CanConnect(t, outcome)
          /\ g' = r.g
          /\ Opened(t, r)
          /\ log' = r.log
          /\ last' = [Call("get_db", t) EXCEPT
                        !.outcome = IF r.connects > 0 THEN <<outcome>> ELSE <<>>,
                        !.ret = r.ret, !.raised = r.raised,
                        !.connects = r.connects]
  /\ UNCHANGED <<PYTHON_LOG_LEVEL, req, closeCalls>>

\* Handler code of the request on thread t calls close_db().
CloseDb(t) ==
  /\ has_request_context(req[t])
  /\ \E outcome \in CloseOutcomes :
       LET r == close_db(t, req[t], outcome)
       IN /\ g' = r.g
          /\ closeCalls' = Closed(r.closed)
          /\ log' = r.log
          /\ last' = [Call("close_db", t) EXCEPT
                        !.outcome = IF r.closed # <<>> THEN <<outcome>> ELSE <<>>,
                        !.raised = r.raised, !.closed = r.closed]
  /\ UNCHANGED <<PYTHON_LOG_LEVEL, req, nextConn, owner>>

\* The framework tears the context of thread t down: the request context is
\* popped, close_db() runs as the registered teardown_appcontext function,
\* then g is discarded.
Teardown(t) ==
  /\ has_request_context(req[t])
  /\ \E outcome \in CloseOutcomes :
       LET r == close_db(t, NoReq, outcome)
       IN /\ g' = r.g
          /\ closeCalls' = Closed(r.closed)
          /\ log' = r.log
          /\ last' = [Call("teardown", t) EXCEPT
                        !.request = NoReq,
                        !.outcome = IF r.closed # <<>> THEN <<outcome>> ELSE <<>>,
                        !.raised = r.raised, !.closed = r.closed]
  /\ req' = [req EXCEPT ![t] = NoReq]
  /\ owner' = [c \in ConnId |-> IF owner[c] = t THEN Discarded ELSE owner[c]]
  /\ UNCHANGED <<PYTHON_LOG_LEVEL, nextConn>>

\* Any code running on thread t logs a line, inside a request or outside.
Emit(t) ==
  /\ \E level \in Levels :
       log' = emit(req[t], level, "message")
  /\ last' = Call("emit", t)
  /\ UNCHANGED <<PYTHON_LOG_LEVEL, req, g, nextConn, owner, closeCalls>>

\* The handler of a request for /health on thread t runs.
Health(t) ==
  /\ has_request_context(req[t])
  /\ req[t].url = "/health"
  /\ \E outcome \in ConnectOutcomes, query \in QueryOutcomes :
       LET r == get_db(t, outcome)
           h == health(t, r, query)
       IN /\ CanConnect(t, outcome)
          /\ g' = r.g
          /\ Opened(t, r)
          /\ log' = r.log \o h.log
          /\ last' = [Call("health", t) EXCEPT
                        !.outcome = IF r.connects > 0 THEN <<outcome>> ELSE <<>>,
                        !.exc = IF h.executes > 0 THEN <<query>> ELSE <<>>,
                        !.ret = r.ret, !.raised = h.raised,
                        !.connects = r.connects, !.executes = h.executes,
                        !.status = h.status, !.body = h.body]
  /\ UNCHANGED <<PYTHON_LOG_LEVEL, req, closeCalls>>

\* An uncaught exception on thread t reaches sys.excepthook.
HandleException(t) ==
  /\ \E exc_type \in ExcTypes, exc_value \in ExcValues, exc_traceback \in Tracebacks :
       LET r == handle_exception(t, exc_type, exc_value, exc_traceback)
       IN /\ log' = r.log
          /\ last' = [Call("handle_exception", t) EXCEPT
                        !.exc = <<exc_type, exc_value, exc_traceback>>,
                        !.hook = r.hook]
  /\ UNCHANGED <<PYTHON_LOG_LEVEL, req, g, nextConn, owner, closeCalls>>

Next ==
  \E t \in Thread :
    \/ StartRequest(t)
    \/ GetDb(t)
    \/ CloseDb(t)
    \/ Teardown(t)
    \/ Emit(t)
    \/ Health(t)
    \/ HandleException(t)

Spec == Init /\ [][Next]_vars

\* The operations that reach g and the connections: the other two only log.
DbNext ==
  \E t \in Thread :
    \/ StartRequest(t)
    \/ GetDb(t)
    \/ CloseDb(t)
    \/ Teardown(t)
    \/ Health(t)

\* The connection manager alone, the framework running the teardown of every
\* context it created.
FairSpec ==
  Init /\ [][DbNext]_vars /\ \A t \in Thread : WF_vars(Teardown(t))

\* ------------------------------------------------------------ properties

IsRelease == last.op \in {"close_db", "teardown"}

\* The handles the active context of thread t opened and close() was never
\* invoked on.
OpenFor(t) == {c \in ConnId : owner[c] = t /\ closeCalls[c] = 0}

\* C1: a get_db() call in a context that already holds a handle returns that
\* very handle, and opens no connection.
C1_SecondAcquireReturnsHeldHandle ==
  (last.op = "get_db" /\ last.held # NoDb) =>
    /\ last.ret = last.held
    /\ last.connects = 0
    /\ g[last.ctx] = last.held

\* C2: close_db() on a context that holds a handle invokes close() on that
\* handle and on no other, the only close() that handle ever gets, and leaves
\* the context without a handle; a get_db() that then connects stores and
\* returns a handle close() was never invoked on and no other context holds.
C2_ReleaseClosesOnceThenFresh ==
  /\ (IsRelease /\ last.held # NoDb) =>
       /\ last.closed = <<last.held>>
       /\ closeCalls[last.held] = 1
       /\ g[last.ctx] = NoDb
  /\ (last.op = "get_db" /\ last.held = NoDb /\ last.raised = "none") =>
       /\ last.ret # NoDb
       /\ g[last.ctx] = last.ret
       /\ closeCalls[last.ret] = 0
       /\ owner[last.ret] = last.ctx
       /\ \A u \in Thread \ {last.ctx} : g[u] # last.ret

\* A context that released a handle holds a second one, which get_db() has
\* just opened.
C2_Witness ==
  \E t \in Thread, c \in ConnId :
    /\ last.op = "get_db" /\ last.ctx = t /\ last.connects = 1
    /\ owner[c] = t /\ closeCalls[c] = 1
    /\ in_g(t) /\ g[t] # c /\ owner[g[t]] = t

\* C3: close_db() returns normally whether close() succeeds or raises.
C3_ReleaseNeverRaises == IsRelease => last.raised = "none"

\* C4: get_db() whose engine.connect() fails raises that error after one
\* connect call and leaves the context without a handle, so that a release
\* of that context invokes close() on nothing.
C4_ConnectFailurePropagates ==
  (last.op = "get_db" /\ last.outcome = <<"fail">>) =>
    /\ last.raised = "ConnectionError"
    /\ last.connects = 1
    /\ last.ret = NoDb
    /\ g[last.ctx] = NoDb
    /\ OpenFor(last.ctx) = {}
    /\ \A o \in CloseOutcomes : close_db(last.ctx, req[last.ctx], o).closed = <<>>

\* A get_db() has just failed to connect.
C4_Witness ==
  /\ last.op = "get_db" /\ last.outcome = <<"fail">>
  /\ last.raised = "ConnectionError" /\ g[last.ctx] = NoDb

\* C5, as claimed: close_db() on a context without a handle raises nothing,
\* invokes close() on nothing, leaves the context without a handle and
\* writes at least one log line.
C5_ReleaseWithoutHandleLogs ==
  (IsRelease /\ last.held = NoDb) =>
    /\ last.raised = "none"
    /\ last.closed = <<>>
    /\ g[last.ctx] = NoDb
    /\ Len(log) >= 1

\* C5, amended: close_db() on a context without a handle raises nothing,
\* invokes close() on nothing and leaves the context without a handle; it
\* writes at least one log line, each at INFO, when PYTHON_LOG_LEVEL is INFO
\* or lower, and none when it is higher.
C5_ReleaseWithoutHandleIsNoOp ==
  (IsRelease /\ last.held = NoDb) =>
    /\ last.raised = "none"
    /\ last.closed = <<>>
    /\ g[last.ctx] = NoDb
    /\ (PYTHON_LOG_LEVEL <= INFO) => Len(log) >= 1
    /\ (PYTHON_LOG_LEVEL > INFO) => log = <<>>
    /\ \A i \in DOMAIN log : log[i].level = INFO

\* A context that already released its handle has just been released again,
\* and the lines of that release were written.
C5_Witness ==
  \E t \in Thread, c \in ConnId :
    /\ last.op = "close_db" /\ last.ctx = t /\ last.held = NoDb
    /\ owner[c] = t /\ closeCalls[c] = 1
    /\ g[t] = NoDb /\ Len(log) = 2

\* C6: a /health request whose get_db() gave a connection executes the query
\* once and answers 200, with "OK" exactly when the query succeeded and "BAD"
\* for an operational error and for any other exception.
C6_HealthAnswers ==
  (last.op = "health" /\ last.ret # NoDb) =>
    /\ last.status = 200
    /\ last.executes = 1
    /\ (last.body = "OK") <=> (last.exc = <<"ok">>)
    /\ (last.exc \in {<<"operr">>, <<"other">>}) => (last.body = "BAD")

\* A /health request has just answered "BAD" to a query that raised an
\* exception which is no operational error.
C6_Witness ==
  /\ last.op = "health" /\ last.ret # NoDb
  /\ last.exc = <<"other">> /\ last.body = "BAD"

\* C7: an active context has at most one handle it opened and close() was not
\* invoked on, the one it holds; a discarded context has none.
C7_AtMostOneOpenHandle ==
  /\ \A t \in Thread : Cardinality(OpenFor(t)) <= 1 /\ OpenFor(t) \subseteq {g[t]}
  /\ OpenFor(Discarded) = {}

\* A context that closed one handle holds another, open one, which get_db()
\* has just opened.
C7_Witness ==
  \E t \in Thread, c \in ConnId :
    /\ owner[c] = t /\ closeCalls[c] = 1
    /\ OpenFor(t) = {g[t]} /\ last.op = "get_db" /\ last.ctx = t

\* C8: with the teardown of every context eventually run, close() is
\* eventually invoked on every handle get_db() created, and never twice; the
\* teardown of a context that opened no handle invokes close() on nothing.
C8_NoConnectionLeak ==
  /\ \A c \in ConnId : (owner[c] # NoOwner) ~> (closeCalls[c] = 1)
  /\ [](\A c \in ConnId : closeCalls[c] <= 1)
  /\ [][\A t \in Thread :
          (Teardown(t) /\ {c \in ConnId : owner[c] = t} = {}) =>
            (last'.closed = <<>> /\ closeCalls' = closeCalls)]_vars

\* A teardown has just closed the handle of the context it discarded.
C8_Witness ==
  \E c \in ConnId :
    /\ last.op = "teardown" /\ last.closed = <<c>>
    /\ owner[c] = Discarded /\ closeCalls[c] = 1

\* C9: every record an operation logs carries the url and remote address of
\* the request active on its thread when it ran, and both absent markers when
\* none was.
C9_RecordsCarryTheActiveRequest ==
  \A i \in DOMAIN log :
    /\ (log[i].url # None) <=> (last.request # NoReq)
    /\ (log[i].remote_addr # None) <=> (last.request # NoReq)
    /\ log[i].url = last.request.url
    /\ log[i].remote_addr = last.request.remote_addr

\* A record was logged inside a request for /health.
C9_Witness ==
  /\ last.op = "emit" /\ Len(log) = 1
  /\ has_request_context(req[last.ctx])
  /\ log[1].url = "/health" /\ log[1].remote_addr = "10.0.0.2"

\* C10: the hook logs exactly one record, at CRITICAL, and does not call the
\* default hook, unless the exception class is KeyboardInterrupt or derives
\* from it: then it logs nothing and calls the default hook with its own
\* three arguments.
C10_HookLogsOnceUnlessInterrupt ==
  last.op = "handle_exception" =>
    IF issubclass(last.exc[1], "KeyboardInterrupt")
    THEN log = <<>> /\ last.hook = last.exc
    ELSE /\ Len(log) = 1 /\ log[1].level = CRITICAL
         /\ last.hook = <<>>

\* The hook has just logged the one critical record of an exception.
C10_Witness ==
  /\ last.op = "handle_exception" /\ last.exc[1] = "ValueError"
  /\ Len(log) = 1 /\ log[1].level = CRITICAL
====
